---------------------------- MODULE Spec2Model ----------------------------
(***************************************************************************)
(* A model of src/main.go: the shell-quote-aware tokenizer (shellSplit),   *)
(* the command classifier (parseCommand) and the history reconstructor     *)
(* (parseHistory with its flushEntry closure).                             *)
(*                                                                         *)
(* A Go string is a sequence of bytes (0..255), indexed from 1 here and    *)
(* from 0 in the source.  A rune written to a strings.Builder is stored as *)
(* its UTF-8 encoding.                                                     *)
(***************************************************************************)
EXTENDS Integers, Sequences, FiniteSets, TLC

(***************************************************************************)
(* Bounds of the model.                                                    *)
(***************************************************************************)
\* longest raw command string enumerated byte by byte
MaxRawLen == 4
\* most words joined into one raw command string
MaxWords == 4
\* most physical lines the scanner delivers from the history file
MaxLines == 3
\* most physical lines delivered when the lines are drawn from ExtLines
MaxExtLines == 1

(***************************************************************************)
(* Byte values of the character literals the source names.                 *)
(***************************************************************************)
SQUOTE == 39
DQUOTE == 34
BACKSLASH == 92
DOLLAR == 36
BACKTICK == 96
NEWLINE == 10
EQUALS == 61
DASH == 45
COLON == 58
SPACE == 32
SEMICOLON == 59

\* The byte of each printable character used to write the inputs below.
Ord ==
  [c \in {" ", "+", "-", "0", "1", "2", "3", "4", "5", "6", "7", "8", "9", ":", ";",
          "=", "A", "a", "b", "c", "e", "h", "i", "l", "o", "s", "x"} |->
     CASE c = " " -> 32 [] c = "+" -> 43 [] c = "-" -> 45
       [] c = "0" -> 48 [] c = "1" -> 49 [] c = "2" -> 50 [] c = "3" -> 51
       [] c = "4" -> 52 [] c = "5" -> 53
       [] c = "6" -> 54 [] c = "7" -> 55 [] c = "8" -> 56
       [] c = "9" -> 57 [] c = ":" -> 58 [] c = ";" -> 59 [] c = "=" -> 61
       [] c = "A" -> 65 [] c = "a" -> 97 [] c = "b" -> 98 [] c = "c" -> 99
       [] c = "e" -> 101 [] c = "h" -> 104 [] c = "i" -> 105
       [] c = "l" -> 108 [] c = "o" -> 111 [] c = "s" -> 115
       [] c = "x" -> 120]

\* The Go string written as a tuple of one-character strings.
B(cs) == [i \in 1..Len(cs) |-> Ord[cs[i]]]

(***************************************************************************)
(* Library functions of package strings and unicode, by what they do.      *)
(***************************************************************************)
\* unicode.IsSpace of rune(b) for a byte b: the Latin-1 space characters.
IsSpace(r) == r \in {9, 10, 11, 12, 13, 32, 133, 160}

\* strings.Builder.WriteRune: appends the UTF-8 encoding of rune(b), b a byte.
WriteRune(buf, r) ==
  IF r < 128 THEN Append(buf, r)
  ELSE buf \o <<192 + (r \div 64), 128 + (r % 64)>>

\* The UTF-8 encodings of the White_Space runes above U+007F.
SpaceEncodings ==
  {<<194, 133>>, <<194, 160>>, <<225, 154, 128>>, <<226, 128, 168>>,
   <<226, 128, 169>>, <<226, 128, 175>>, <<226, 129, 159>>, <<227, 128, 128>>}
  \cup {<<226, 128, b>> : b \in 128..138}

\* Width of the white-space rune whose encoding starts at s[i]; 0 if none.
SpaceWidthAt(s, i) ==
  IF s[i] < 128 THEN (IF s[i] \in {9, 10, 11, 12, 13, 32} THEN 1 ELSE 0)
  ELSE IF \E e \in SpaceEncodings :
            i + Len(e) - 1 <= Len(s) /\ SubSeq(s, i, i + Len(e) - 1) = e
       THEN Len(CHOOSE e \in SpaceEncodings :
                 i + Len(e) - 1 <= Len(s) /\ SubSeq(s, i, i + Len(e) - 1) = e)
       ELSE 0

\* Width of the white-space rune whose encoding ends at s[j]; 0 if none.
SpaceWidthBefore(s, j) ==
  IF s[j] < 128 THEN (IF s[j] \in {9, 10, 11, 12, 13, 32} THEN 1 ELSE 0)
  ELSE IF \E e \in SpaceEncodings :
            j - Len(e) + 1 >= 1 /\ SubSeq(s, j - Len(e) + 1, j) = e
       THEN Len(CHOOSE e \in SpaceEncodings :
                 j - Len(e) + 1 >= 1 /\ SubSeq(s, j - Len(e) + 1, j) = e)
       ELSE 0

RECURSIVE TrimLeft(_)
TrimLeft(s) ==
  IF s = <<>> \/ SpaceWidthAt(s, 1) = 0 THEN s
  ELSE TrimLeft(SubSeq(s, SpaceWidthAt(s, 1) + 1, Len(s)))

RECURSIVE TrimRight(_)
TrimRight(s) ==
  IF s = <<>> \/ SpaceWidthBefore(s, Len(s)) = 0 THEN s
  ELSE TrimRight(SubSeq(s, 1, Len(s) - SpaceWidthBefore(s, Len(s))))

\* strings.TrimSpace: leading and trailing Unicode white space removed.
TrimSpace(s) == TrimRight(TrimLeft(s))

\* strings.HasPrefix
HasPrefix(s, p) == Len(s) >= Len(p) /\ SubSeq(s, 1, Len(p)) = p

\* strings.HasSuffix
HasSuffix(s, p) ==
  Len(s) >= Len(p) /\ SubSeq(s, Len(s) - Len(p) + 1, Len(s)) = p

\* strings.TrimPrefix
TrimPrefix(s, p) == IF HasPrefix(s, p) THEN SubSeq(s, Len(p) + 1, Len(s)) ELSE s

\* strings.TrimSuffix
TrimSuffix(s, p) == IF HasSuffix(s, p) THEN SubSeq(s, 1, Len(s) - Len(p)) ELSE s

\* strings.Index for a one-byte separator: first position of sep, 0 if none.
RECURSIVE IndexFrom(_, _, _)
IndexFrom(s, sep, i) ==
  IF i > Len(s) THEN 0
  ELSE IF s[i] = sep THEN i
  ELSE IndexFrom(s, sep, i + 1)

\* strings.Contains for a one-byte substring.
Contains(s, sep) == IndexFrom(s, sep, 1) # 0

\* Last position of sep in s, 0 if none.
RECURSIVE LastIndexFrom(_, _, _)
LastIndexFrom(s, sep, i) ==
  IF i < 1 THEN 0
  ELSE IF s[i] = sep THEN i
  ELSE LastIndexFrom(s, sep, i - 1)

\* SplitN2 cutting at the last separator instead of the first.
SplitN2_AtLast(s, sep) ==
  LET k == LastIndexFrom(s, sep, Len(s)) IN
  IF k = 0 THEN <<s>>
  ELSE <<SubSeq(s, 1, k - 1), SubSeq(s, k + 1, Len(s))>>

\* strings.SplitN(s, sep, 2) for a one-byte separator: one or two parts.
SplitN2(s, sep) ==
  LET k == IndexFrom(s, sep, 1) IN
  IF k = 0 THEN <<s>>
  ELSE <<SubSeq(s, 1, k - 1), SubSeq(s, k + 1, Len(s))>>

(***************************************************************************)
(* shellSplit (src/main.go:30-99).                                         *)
(***************************************************************************)
\* The locals of shellSplit before the loop.
SplitInit ==
  [i |-> 1, inSingle |-> FALSE, inDouble |-> FALSE,
   current |-> <<>>, tokens |-> <<>>]

\* One iteration of the loop with one of three slips:
\*   "quoteFirst"   a quote character opens its mode inside the other mode
\*   "noDqEscape"   no escape processing inside double quotes
\*   "skipLast"     a backslash at the last position is skipped with the
\*                  character that is not there
SplitStepWith(s, st, slip) ==
  LET c == s[st.i] IN
  IF slip = "quoteFirst" /\ st.inSingle /\ c = DQUOTE
  THEN [st EXCEPT !.inDouble = TRUE, !.i = @ + 1]
  ELSE IF slip = "quoteFirst" /\ st.inDouble /\ c = SQUOTE
  THEN [st EXCEPT !.inSingle = TRUE, !.i = @ + 1]
  ELSE IF slip = "skipLast" /\ c = BACKSLASH /\ st.i = Len(s)
  THEN [st EXCEPT !.i = @ + 2]
  ELSE IF st.inSingle THEN
    IF c = SQUOTE
    THEN [st EXCEPT !.inSingle = FALSE, !.i = @ + 1]
    ELSE [st EXCEPT !.current = WriteRune(@, c), !.i = @ + 1]
  ELSE IF st.inDouble THEN
    IF slip # "noDqEscape" /\ c = BACKSLASH /\ st.i + 1 <= Len(s) THEN
      LET next == s[st.i + 1] IN
      IF next \in {DQUOTE, BACKSLASH, DOLLAR, BACKTICK, NEWLINE}
      THEN [st EXCEPT !.current = WriteRune(@, next), !.i = @ + 2]
      ELSE [st EXCEPT !.current = WriteRune(@, c), !.i = @ + 1]
    ELSE IF c = DQUOTE
    THEN [st EXCEPT !.inDouble = FALSE, !.i = @ + 1]
    ELSE [st EXCEPT !.current = WriteRune(@, c), !.i = @ + 1]
  ELSE IF c = BACKSLASH /\ st.i + 1 <= Len(s)
  THEN [st EXCEPT !.current = WriteRune(@, s[st.i + 1]), !.i = @ + 2]
  ELSE IF c = SQUOTE
  THEN [st EXCEPT !.inSingle = TRUE, !.i = @ + 1]
  ELSE IF c = DQUOTE
  THEN [st EXCEPT !.inDouble = TRUE, !.i = @ + 1]
  ELSE IF IsSpace(c)
  THEN IF st.current # <<>>
       THEN [st EXCEPT !.tokens = Append(@, st.current),
                       !.current = <<>>, !.i = @ + 1]
       ELSE [st EXCEPT !.i = @ + 1]
  ELSE [st EXCEPT !.current = WriteRune(@, c), !.i = @ + 1]

SplitStep_QuoteFirst(s, st) == SplitStepWith(s, st, "quoteFirst")

SplitStep_NoDqEscape(s, st) == SplitStepWith(s, st, "noDqEscape")

SplitStep_SkipLast(s, st) == SplitStepWith(s, st, "skipLast")

\* One iteration of the loop of shellSplit on s, from the locals st.
SplitStep(s, st) ==
  LET c == s[st.i] IN
  IF st.inSingle THEN
    IF c = SQUOTE
    THEN [st EXCEPT !.inSingle = FALSE, !.i = @ + 1]
    ELSE [st EXCEPT !.current = WriteRune(@, c), !.i = @ + 1]
  ELSE IF st.inDouble THEN
    IF c = BACKSLASH /\ st.i + 1 <= Len(s) THEN
      LET next == s[st.i + 1] IN
      IF next \in {DQUOTE, BACKSLASH, DOLLAR, BACKTICK, NEWLINE}
      THEN [st EXCEPT !.current = WriteRune(@, next), !.i = @ + 2]
      ELSE [st EXCEPT !.current = WriteRune(@, c), !.i = @ + 1]
    ELSE IF c = DQUOTE
    THEN [st EXCEPT !.inDouble = FALSE, !.i = @ + 1]
    ELSE [st EXCEPT !.current = WriteRune(@, c), !.i = @ + 1]
  ELSE IF c = BACKSLASH /\ st.i + 1 <= Len(s)
  THEN [st EXCEPT !.current = WriteRune(@, s[st.i + 1]), !.i = @ + 2]
  ELSE IF c = SQUOTE
  THEN [st EXCEPT !.inSingle = TRUE, !.i = @ + 1]
  ELSE IF c = DQUOTE
  THEN [st EXCEPT !.inDouble = TRUE, !.i = @ + 1]
  ELSE IF IsSpace(c)
  THEN IF st.current # <<>>
       THEN [st EXCEPT !.tokens = Append(@, st.current),
                       !.current = <<>>, !.i = @ + 1]
       ELSE [st EXCEPT !.i = @ + 1]
  ELSE [st EXCEPT !.current = WriteRune(@, c), !.i = @ + 1]

\* The loop of shellSplit: steps until the position passes the end of s.
RECURSIVE SplitLoop(_, _)
SplitLoop(s, st) ==
  IF st.i > Len(s) THEN st ELSE SplitLoop(s, SplitStep(s, st))

\* SplitFinish appending the buffer without testing its length.
SplitFinish_NoLenTest(st) == Append(st.tokens, st.current)

\* Lines 94-98: the final flush of a non-empty buffer, and the tokens returned.
SplitFinish(st) ==
  IF st.current # <<>> THEN Append(st.tokens, st.current) ELSE st.tokens

\* shellSplit: the loop, then the final flush.
shellSplit(s) == SplitFinish(SplitLoop(s, SplitInit))

(***************************************************************************)
(* parseCommand (src/main.go:101-123).                                     *)
(***************************************************************************)
\* SkipAssignments without the test for a leading '-'.
RECURSIVE SkipAssignments_NoDashTest(_, _)
SkipAssignments_NoDashTest(tokens, start) ==
  IF start <= Len(tokens) /\ Contains(tokens[start], EQUALS)
  THEN SkipAssignments_NoDashTest(tokens, start + 1)
  ELSE start

\* The loop skipping leading env var assignments: the final value of start.
RECURSIVE SkipAssignments(_, _)
SkipAssignments(tokens, start) ==
  IF start <= Len(tokens) /\ Contains(tokens[start], EQUALS)
     /\ ~HasPrefix(tokens[start], <<DASH>>)
  THEN SkipAssignments(tokens, start + 1)
  ELSE start

\* AllEnvVars reporting the last skipped token instead of the first.
AllEnvVars_LastToken(raw, tokens) ==
  [Raw |-> raw, Cmd |-> tokens[Len(tokens)], Args |-> <<>>]

\* CmdAndArgs leaving Cmd unset.
CmdAndArgs_NoCmd(raw, tokens, start) ==
  [Raw |-> raw, Cmd |-> <<>>, Args |-> SubSeq(tokens, start + 1, Len(tokens))]

\* The ParsedCommand of the three return statements.
NoTokens(raw, tokens) == [Raw |-> raw, Cmd |-> <<>>, Args |-> <<>>]

AllEnvVars(raw, tokens) == [Raw |-> raw, Cmd |-> tokens[1], Args |-> <<>>]

CmdAndArgs(raw, tokens, start) ==
  [Raw |-> raw, Cmd |-> tokens[start],
   Args |-> SubSeq(tokens, start + 1, Len(tokens))]

parseCommand(raw) ==
  LET tokens == shellSplit(TrimSpace(raw)) IN
  IF Len(tokens) = 0 THEN NoTokens(raw, tokens)
  ELSE LET start == SkipAssignments(tokens, 1) IN
       IF start > Len(tokens) THEN AllEnvVars(raw, tokens)
       ELSE CmdAndArgs(raw, tokens, start)

(***************************************************************************)
(* Integers of strconv and instants of package time.  A 64-bit integer is  *)
(* kept as its sign and its decimal digits without leading zeros, since    *)
(* the values that matter here exceed the 32-bit integers of TLC.  A       *)
(* time.Time is identified by its Unix seconds.                            *)
(***************************************************************************)
Dec(neg, mag) == [neg |-> neg, mag |-> mag]

\* The zero value of the int field Duration.
DecZero == Dec(FALSE, <<0>>)

\* The magnitudes of the largest and the smallest int64.
MaxInt64Mag == <<9, 2, 2, 3, 3, 7, 2, 0, 3, 6, 8, 5, 4, 7, 7, 5, 8, 0, 7>>

MinInt64Mag == <<9, 2, 2, 3, 3, 7, 2, 0, 3, 6, 8, 5, 4, 7, 7, 5, 8, 0, 8>>

RECURSIVE StripZeros(_)
StripZeros(d) ==
  IF Len(d) > 1 /\ d[1] = 0 THEN StripZeros(Tail(d)) ELSE d

\* a <= b for two magnitudes without leading zeros.
MagLeq(a, b) ==
  \/ Len(a) < Len(b)
  \/ /\ Len(a) = Len(b)
     /\ \/ a = b
        \/ \E k \in 1..Len(a) :
             a[k] < b[k] /\ \A j \in 1..(k - 1) : a[j] = b[j]

\* strconv.ParseInt(s, 10, 64): an optional sign, then one or more decimal
\* digits, the value within int64; ok is err == nil.
ParseInt(s) ==
  LET signed == s # <<>> /\ s[1] \in {43, 45}
      neg == s # <<>> /\ s[1] = 45
      body == IF signed THEN Tail(s) ELSE s
      syntax == body # <<>> /\ \A k \in 1..Len(body) : body[k] \in 48..57
      mag == StripZeros([k \in 1..Len(body) |-> body[k] - 48])
  IN IF ~syntax THEN [ok |-> FALSE, val |-> DecZero]
     ELSE IF ~MagLeq(mag, IF neg THEN MinInt64Mag ELSE MaxInt64Mag)
     THEN [ok |-> FALSE, val |-> DecZero]
     ELSE [ok |-> TRUE, val |-> Dec(neg /\ mag # <<0>>, mag)]

\* strconv.Atoi(s): ParseInt(s, 10, 0) as an int, 64 bits wide on the build
\* modelled.
Atoi(s) == ParseInt(s)

\* time.Unix(sec, 0): the instant sec seconds after January 1, 1970 UTC.
TimeUnix(sec) == [unix |-> sec]

\* time.Time{}: January 1, year 1, 00:00:00 UTC, which is 62135596800 seconds
\* before the Unix epoch.  The Timestamp of an Entry literal that sets none.
ZeroTime == [unix |-> Dec(TRUE, <<6, 2, 1, 3, 5, 5, 9, 6, 8, 0, 0>>)]

\* Time.IsZero: whether t is the zero instant.
IsZero(t) == t.unix = ZeroTime.unix

(***************************************************************************)
(* flushEntry, the closure of parseHistory (src/main.go:138-166).          *)
(***************************************************************************)
\* The Entry appended on a successful extended-format match.
ExtendedEntry(ts, dur, cmdText) ==
  [Timestamp |-> TimeUnix(ts), Duration |-> dur, Parsed |-> parseCommand(cmdText)]

\* The Entry appended for a plain line: Entry{Parsed: parseCommand(raw)}.
PlainEntry(line) ==
  [Timestamp |-> ZeroTime, Duration |-> DecZero, Parsed |-> parseCommand(line)]

\* ExtendedMatch ignoring the error of the duration's Atoi.
ExtendedMatch_IgnoreDurErr(line) ==
  LET parts == SplitN2(line, SEMICOLON)
      meta == TrimPrefix(parts[1], <<COLON, SPACE>>)
      metaParts == SplitN2(meta, COLON)
  IN /\ HasPrefix(line, <<COLON, SPACE>>)
     /\ Len(parts) = 2
     /\ Len(metaParts) = 2
     /\ ParseInt(TrimSpace(metaParts[1])).ok

\* Whether line takes the extended branch, returning at line 156.
ExtendedMatch(line) ==
  LET parts == SplitN2(line, SEMICOLON)
      meta == TrimPrefix(parts[1], <<COLON, SPACE>>)
      metaParts == SplitN2(meta, COLON)
  IN /\ HasPrefix(line, <<COLON, SPACE>>)
     /\ Len(parts) = 2
     /\ Len(metaParts) = 2
     /\ ParseInt(TrimSpace(metaParts[1])).ok
     /\ Atoi(TrimSpace(metaParts[2])).ok

\* flushEntry without the test raw != "" of the plain branch.
flushEntry_NoEmptyTest(line) ==
  LET parts == SplitN2(line, SEMICOLON)
      meta == TrimPrefix(parts[1], <<COLON, SPACE>>)
      metaParts == SplitN2(meta, COLON)
  IN IF ExtendedMatch(line)
     THEN <<[origin |-> "extended",
             entry |-> ExtendedEntry(ParseInt(TrimSpace(metaParts[1])).val,
                                     Atoi(TrimSpace(metaParts[2])).val,
                                     parts[2])]>>
     ELSE <<[origin |-> "plain", entry |-> PlainEntry(line)]>>

\* What one call flushEntry(line) appends to entries: no entry or one, with
\* the branch that appended it.
flushEntry(line) ==
  LET parts == SplitN2(line, SEMICOLON)
      meta == TrimPrefix(parts[1], <<COLON, SPACE>>)
      metaParts == SplitN2(meta, COLON)
  IN IF ExtendedMatch(line)
     THEN <<[origin |-> "extended",
             entry |-> ExtendedEntry(ParseInt(TrimSpace(metaParts[1])).val,
                                     Atoi(TrimSpace(metaParts[2])).val,
                                     parts[2])]>>
     ELSE IF line # <<>>
     THEN <<[origin |-> "plain", entry |-> PlainEntry(line)]>>
     ELSE <<>>

(***************************************************************************)
(* The state.                                                              *)
(*   pc          where the call is: parseHistory at "start" (before        *)
(*               os.Open), "scan" (in the line loop), "after" (the loop    *)
(*               left) or "done" (returned); parseCommand at "call" or     *)
(*               "returned"                                                *)
(*   handle      the file f: "none", "open" or "closed"                    *)
(*   consumed    the physical lines scanner.Text() has delivered so far    *)
(*   currentCmd  the accumulator of continuation lines                     *)
(*   entries     the local slice entries                                   *)
(*   origin      for each element of entries, the branch of flushEntry     *)
(*               that appended it                                          *)
(*   flushed     the argument of each call of flushEntry so far            *)
(*   scanErr     scanner.Err() once the loop is left                       *)
(*   ret         the values parseHistory returned                          *)
(*   raw, parsed the argument and the result of a call of parseCommand     *)
(*   splitIn     the argument of a call of shellSplit; there pc is "split" *)
(*               (in the loop) or "split_done" (returned)                  *)
(*   splitSt     the locals of that call: i, inSingle, inDouble, current,  *)
(*               tokens                                                    *)
(*   splitOut    the tokens that call returned                             *)
(*   counts      the map counts of main; there pc is "count", "range",     *)
(*               "sort" or "reported"                                      *)
(*   sorted      the slice sorted of main, in the order the range over the *)
(*               map appended to it                                        *)
(*   printed     the lines of the frequency report, as <<Value, Key>>      *)
(*   sorted2, printed2  the same two of a second run of main on the same   *)
(*               history file                                              *)
(***************************************************************************)
VARIABLES pc, handle, consumed, currentCmd, entries, origin, flushed,
          scanErr, ret, raw, parsed, splitIn, splitSt, splitOut,
          counts, sorted, sorted2, printed, printed2

splitVars == <<splitIn, splitSt, splitOut>>

reportVars == <<counts, sorted, sorted2, printed, printed2>>

vars == <<pc, handle, consumed, currentCmd, entries, origin, flushed,
          scanErr, ret, raw, parsed, splitVars, reportVars>>

histVars == <<handle, consumed, currentCmd, entries, origin, flushed,
              scanErr, ret>>

NoRet == [entries |-> <<>>, err |-> "unset"]

NoParsed == [Raw |-> <<>>, Cmd |-> <<>>, Args |-> <<>>]

(***************************************************************************)
(* Inputs.                                                                 *)
(***************************************************************************)
\* The physical lines of the history files explored line by line.
HistLines ==
  { B(<<"l", "s">>),
    <<>>,
    <<SPACE>>,
    B(<<"h", "i">>),
    B(<<"e", "c", " ">>) \o <<BACKSLASH>>,
    <<BACKSLASH>>,
    B(<<":", " ", "1", ":", "5", ";", "l", "s">>),
    B(<<":", " ", "1", ":", "5", ";", "a", " ">>) \o <<BACKSLASH>>,
    B(<<":", " ", "x", ":", "5", ";", "l", "s">>) }

\* The timestamp and duration fields that are integers, with their values.
TsFields ==
  { [text |-> B(<<"1">>), val |-> Dec(FALSE, <<1>>)],
    [text |-> B(<<"0", "7", " ">>), val |-> Dec(FALSE, <<7>>)],
    [text |-> B(<<"-", "0">>), val |-> DecZero],
    [text |-> B(<<"-", "6", "2", "1", "3", "5", "5", "9", "6", "8", "0", "0">>),
     val |-> Dec(TRUE, <<6, 2, 1, 3, 5, 5, 9, 6, 8, 0, 0>>)] }

DurFields ==
  { [text |-> B(<<"5">>), val |-> Dec(FALSE, <<5>>)],
    [text |-> B(<<" ", "+", "3">>), val |-> Dec(FALSE, <<3>>)] }

\* Fields that are no integer of 64 bits: not a number, empty, a number with
\* a trailing letter, and 2^63.
BadFields ==
  { B(<<"x">>), <<>>, B(<<"1", "x">>),
    B(<<"9", "2", "2", "3", "3", "7", "2", "0", "3", "6", "8", "5", "4", "7",
        "7", "5", "8", "0", "8">>) }

\* What stands where the ": " prefix belongs.
GoodPrefix == <<COLON, SPACE>>

BadPrefixes == { <<>>, <<COLON>>, <<SPACE, COLON, SPACE>> }

\* Command texts; the second holds a ';' of its own.
CmdTexts == { B(<<"l", "s", " ", "-", "a">>), B(<<"a", ";", "b">>) }

\* A line is put together from a prefix, a timestamp field, a ':' or none, a
\* duration field, a ';' or none, and a command text.
Build(p) ==
  p.pre \o p.ts \o (IF p.colon THEN <<COLON>> ELSE <<>>) \o p.dur
        \o (IF p.semi THEN <<SEMICOLON>> ELSE <<>>) \o p.cmd

\* The lines in the extended format.
GoodParts ==
  { [pre |-> GoodPrefix, ts |-> t.text, colon |-> TRUE, dur |-> d.text,
     semi |-> TRUE, cmd |-> c, tsVal |-> t.val, durVal |-> d.val] :
    t \in TsFields, d \in DurFields, c \in CmdTexts }

\* The lines that miss the extended format in one respect.
BadParts ==
  LET Fix(g) == [pre |-> g.pre, ts |-> g.ts, colon |-> g.colon,
                 dur |-> g.dur, semi |-> g.semi, cmd |-> g.cmd]
  IN  { [Fix(g) EXCEPT !.pre = b] : g \in GoodParts, b \in BadPrefixes }
      \cup { [Fix(g) EXCEPT !.colon = FALSE] : g \in GoodParts }
      \cup { [Fix(g) EXCEPT !.semi = FALSE] : g \in GoodParts }
      \cup { [Fix(g) EXCEPT !.ts = b] : g \in GoodParts, b \in BadFields }
      \cup { [Fix(g) EXCEPT !.dur = b] : g \in GoodParts, b \in BadFields }

GoodLines == { Build(p) : p \in GoodParts }

BadLines == { Build(p) : p \in BadParts }

\* The physical lines of the history files explored for the line formats.
ExtLines == GoodLines \cup BadLines \cup CmdTexts

\* The bytes raw command strings are enumerated over.
RawBytes == {97, EQUALS, DASH, SPACE, SQUOTE, DQUOTE, BACKSLASH}

\* The words raw command strings are joined from.
RawWords ==
  { B(<<"a">>), B(<<"l", "s">>), B(<<"-", "a">>), B(<<"A", "=", "1">>),
    B(<<"=">>), B(<<"-", "x", "=", "1">>),
    <<SQUOTE>> \o B(<<"a", " ", "=">>) \o <<SQUOTE>>,
    <<DQUOTE, DQUOTE>>,
    B(<<"b", "=">>) \o <<BACKSLASH, SPACE>> \o B(<<"c">>) }

RECURSIVE JoinWords(_)
JoinWords(ws) ==
  IF ws = <<>> THEN <<>>
  ELSE IF Len(ws) = 1 THEN ws[1]
  ELSE ws[1] \o <<SPACE>> \o JoinWords(Tail(ws))

\* The raw command strings parseCommand is called on.
RawStrings ==
  UNION { [1..n -> RawBytes] : n \in 0..MaxRawLen }
  \cup { JoinWords(ws) : ws \in UNION { [1..n -> RawWords] : n \in 1..MaxWords } }

(***************************************************************************)
(* parseHistory (src/main.go:125-191).                                     *)
(***************************************************************************)
InitHist ==
  /\ handle = "none"
  /\ consumed = <<>>
  /\ currentCmd = <<>>
  /\ entries = <<>>
  /\ origin = <<>>
  /\ flushed = <<>>
  /\ scanErr = "unset"
  /\ ret = NoRet

\* No call of shellSplit by itself, and no report.
InitSplitIdle ==
  /\ splitIn = <<>>
  /\ splitSt = SplitInit
  /\ splitOut = <<>>

InitReportIdle ==
  /\ counts = <<>>
  /\ sorted = <<>>
  /\ sorted2 = <<>>
  /\ printed = <<>>
  /\ printed2 = <<>>

Init ==
  /\ pc = "start"
  /\ InitHist
  /\ raw = <<>>
  /\ parsed = NoParsed
  /\ InitSplitIdle
  /\ InitReportIdle

\* os.Open succeeds; f.Close is deferred.
Open ==
  /\ pc = "start"
  /\ handle' = "open"
  /\ pc' = "scan"
  /\ UNCHANGED <<consumed, currentCmd, entries, origin, flushed, scanErr, ret,
                 raw, parsed, splitVars, reportVars>>

\* os.Open fails: return nil, err.
OpenFail ==
  /\ pc = "start"
  /\ ret' = [entries |-> <<>>, err |-> "open"]
  /\ pc' = "done"
  /\ UNCHANGED <<handle, consumed, currentCmd, entries, origin, flushed,
                 scanErr, raw, parsed, splitVars, reportVars>>

\* Accumulate without the newline written after the line.
Accumulate_NoNewline(acc, line) == acc \o TrimSuffix(line, <<BACKSLASH>>)

\* The accumulator after a line ending in a backslash is written to it.
Accumulate(acc, line) == acc \o TrimSuffix(line, <<BACKSLASH>>) \o <<NEWLINE>>

\* The accumulator after the line ending a continuation is written to it.
Complete(acc, line) == acc \o line

\* The call flushEntry(logical): what it appends, and the record of the call.
Flush(logical) ==
  LET out == flushEntry(logical) IN
  /\ entries' = entries \o [k \in 1..Len(out) |-> out[k].entry]
  /\ origin' = origin \o [k \in 1..Len(out) |-> out[k].origin]
  /\ flushed' = Append(flushed, logical)

\* A loop iteration on a line ending in a backslash (lines 171-175).
ScanContinuation(line) ==
  /\ pc = "scan"
  /\ HasSuffix(line, <<BACKSLASH>>)
  /\ consumed' = Append(consumed, line)
  /\ currentCmd' = Accumulate(currentCmd, line)
  /\ UNCHANGED <<pc, handle, entries, origin, flushed, scanErr, ret, raw, parsed, splitVars, reportVars>>

\* A loop iteration on a line ending a continuation (lines 177-180).
ScanJoined(line) ==
  /\ pc = "scan"
  /\ ~HasSuffix(line, <<BACKSLASH>>)
  /\ Len(currentCmd) > 0
  /\ consumed' = Append(consumed, line)
  /\ Flush(Complete(currentCmd, line))
  /\ currentCmd' = <<>>
  /\ UNCHANGED <<pc, handle, scanErr, ret, raw, parsed, splitVars, reportVars>>

\* A loop iteration on a line by itself (lines 181-183).
ScanDirect(line) ==
  /\ pc = "scan"
  /\ ~HasSuffix(line, <<BACKSLASH>>)
  /\ Len(currentCmd) = 0
  /\ consumed' = Append(consumed, line)
  /\ Flush(line)
  /\ UNCHANGED <<pc, handle, currentCmd, scanErr, ret, raw, parsed, splitVars, reportVars>>

\* scanner.Scan() returns false: at the end of the file (e = "nil") or on a
\* failed read (e = "read").
ScanStop(e) ==
  /\ pc = "scan"
  /\ scanErr' = e
  /\ pc' = "after"
  /\ UNCHANGED <<handle, consumed, currentCmd, entries, origin, flushed, ret,
                 raw, parsed, splitVars, reportVars>>

\* What parseHistory returns at line 190.
Returned(es, e) == [entries |-> es, err |-> e]

\* Return without the flush of the accumulator after the loop.
Return_NoFinalFlush ==
  /\ pc = "after"
  /\ ret' = Returned(entries, scanErr)
  /\ handle' = "closed"
  /\ pc' = "done"
  /\ UNCHANGED <<consumed, currentCmd, entries, origin, flushed, scanErr,
                 raw, parsed, splitVars, reportVars>>

\* Return without the deferred f.Close.
Return_NoClose ==
  /\ pc = "after"
  /\ IF Len(currentCmd) > 0
     THEN Flush(currentCmd)
     ELSE UNCHANGED <<entries, origin, flushed>>
  /\ ret' = Returned(entries', scanErr)
  /\ pc' = "done"
  /\ UNCHANGED <<handle, consumed, currentCmd, scanErr, raw, parsed,
                 splitVars, reportVars>>

\* Lines 186-190: the flush of a non-empty accumulator, the return, and the
\* deferred f.Close.
Return ==
  /\ pc = "after"
  /\ IF Len(currentCmd) > 0
     THEN Flush(currentCmd)
     ELSE UNCHANGED <<entries, origin, flushed>>
  /\ ret' = Returned(entries', scanErr)
  /\ handle' = "closed"
  /\ pc' = "done"
  /\ UNCHANGED <<consumed, currentCmd, scanErr, raw, parsed, splitVars, reportVars>>

Next ==
  \/ Open
  \/ OpenFail
  \/ \E line \in HistLines :
       /\ Len(consumed) < MaxLines
       /\ ScanContinuation(line)
  \/ \E line \in HistLines :
       /\ Len(consumed) < MaxLines
       /\ ScanJoined(line)
  \/ \E line \in HistLines :
       /\ Len(consumed) < MaxLines
       /\ ScanDirect(line)
  \/ \E e \in {"nil", "read"} : ScanStop(e)
  \/ Return

\* parseHistory on files of at most MaxLines lines of HistLines.
Spec == Init /\ [][Next]_vars

NextExt ==
  \/ Open
  \/ \E line \in ExtLines :
       /\ Len(consumed) < MaxExtLines
       /\ ScanDirect(line)
  \/ ScanStop("nil")
  \/ Return

\* parseHistory on files of at most MaxExtLines lines of ExtLines.
SpecExt == Init /\ [][NextExt]_vars

(***************************************************************************)
(* parseCommand as a function of its argument.                             *)
(***************************************************************************)
InitCmd ==
  /\ pc = "call"
  /\ InitHist
  /\ raw \in RawStrings
  /\ parsed = NoParsed
  /\ InitSplitIdle
  /\ InitReportIdle

ParseCommandCall ==
  /\ pc = "call"
  /\ parsed' = parseCommand(raw)
  /\ pc' = "returned"
  /\ UNCHANGED <<raw, histVars, splitVars, reportVars>>

NextCmd == ParseCommandCall

\* One call of parseCommand on each string of RawStrings.
SpecCmd == InitCmd /\ [][NextCmd]_vars

(***************************************************************************)
(* shellSplit step by step (src/main.go:30-99).                            *)
(***************************************************************************)
\* longest argument of shellSplit, in characters
MaxSplitLen == 4

\* The characters the arguments are written with, each as its UTF-8 bytes:
\* a, space, the two quotes, backslash, '$', backtick, newline, and two
\* characters of two bytes: U+00A0 (no-break space) and U+00E9 (e acute).
NBSP == <<194, 160>>

EACUTE == <<195, 169>>

SplitChars ==
  { <<97>>, <<SPACE>>, <<SQUOTE>>, <<DQUOTE>>, <<BACKSLASH>>, <<DOLLAR>>,
    <<BACKTICK>>, <<NEWLINE>>, NBSP, EACUTE }

RECURSIVE Flatten(_)
Flatten(ss) == IF ss = <<>> THEN <<>> ELSE ss[1] \o Flatten(Tail(ss))

\* Longer arguments: a b c, a  b, 'a b' c, "a\"b", a\ b
SplitExamples ==
  { B(<<"a", " ", "b", " ", "c">>),
    B(<<"a", " ", " ", "b">>),
    <<SQUOTE>> \o B(<<"a", " ", "b">>) \o <<SQUOTE>> \o B(<<" ", "c">>),
    <<DQUOTE, 97, BACKSLASH, DQUOTE, 98, DQUOTE>>,
    <<97, BACKSLASH, SPACE, 98>> \o B(<<" ", "c">>) }

\* The arguments shellSplit is called on.
SplitInputs ==
  { Flatten(cs) : cs \in UNION { [1..n -> SplitChars] : n \in 0..MaxSplitLen } }
  \cup SplitExamples

InitSplit ==
  /\ pc = "split"
  /\ InitHist
  /\ raw = <<>>
  /\ parsed = NoParsed
  /\ splitIn \in SplitInputs
  /\ splitSt = SplitInit
  /\ splitOut = <<>>
  /\ InitReportIdle

\* One iteration of the loop (lines 37-92).
SplitIter ==
  /\ pc = "split"
  /\ splitSt.i <= Len(splitIn)
  /\ splitSt' = SplitStep(splitIn, splitSt)
  /\ UNCHANGED <<pc, splitIn, splitOut, raw, parsed, histVars, reportVars>>

\* The loop is left: the final flush and the return (lines 94-98).
SplitReturn ==
  /\ pc = "split"
  /\ splitSt.i > Len(splitIn)
  /\ splitOut' = SplitFinish(splitSt)
  /\ pc' = "split_done"
  /\ UNCHANGED <<splitIn, splitSt, raw, parsed, histVars, reportVars>>

NextSplit == SplitIter \/ SplitReturn

\* One call of shellSplit on each string of SplitInputs.
SpecSplit == InitSplit /\ [][NextSplit]_vars

\* The loop of shellSplit has no suspension point: a step that is possible is
\* taken.
SpecSplitFair == SpecSplit /\ WF_vars(NextSplit)

(***************************************************************************)
(* The frequency report of main (src/main.go:223-249), run twice on the    *)
(* entries of the same history file.                                       *)
(***************************************************************************)
\* most lines of the history file reported on
MaxEntries == 3

\* The report stops after this many commands.
TopN == 10

\* The lines of the history files reported on; the last has no command.
ReportLines == { B(<<"l", "s">>), B(<<"h", "i">>), B(<<"a">>), <<SPACE>> }

\* The state main is in when parseHistory has returned the entries of the
\* plain lines ls without an error.
InitReport ==
  \E ls \in UNION { [1..n -> ReportLines] : n \in 0..MaxEntries } :
    /\ pc = "count"
    /\ handle = "closed"
    /\ consumed = ls
    /\ currentCmd = <<>>
    /\ entries = [k \in 1..Len(ls) |-> PlainEntry(ls[k])]
    /\ origin = [k \in 1..Len(ls) |-> "plain"]
    /\ flushed = ls
    /\ scanErr = "nil"
    /\ ret = Returned([k \in 1..Len(ls) |-> PlainEntry(ls[k])], "nil")
    /\ raw = <<>>
    /\ parsed = NoParsed
    /\ InitSplitIdle
    /\ InitReportIdle

\* Lines 225-230: the number of entries of each non-empty command.
CountCommands(es) ==
  [c \in {es[k].Parsed.Cmd : k \in {j \in DOMAIN es : es[j].Parsed.Cmd # <<>>}} |->
     Cardinality({k \in DOMAIN es : es[k].Parsed.Cmd = c})]

\* Lines 235-238: the slices a range over the map cs can build; the order of
\* the iteration is not specified.
RangeOrders(cs) ==
  { [k \in 1..Cardinality(DOMAIN cs) |-> [Key |-> o[k], Value |-> cs[o[k]]]] :
      o \in { f \in [1..Cardinality(DOMAIN cs) -> DOMAIN cs] :
                \A a, b \in 1..Cardinality(DOMAIN cs) : a # b => f[a] # f[b] } }

\* Lines 241-246: the index of the maximum the inner loop finds.
RECURSIVE MaxIdx(_, _, _)
MaxIdx(kvs, j, maxIdx) ==
  IF j > Len(kvs) THEN maxIdx
  ELSE IF kvs[j].Value > kvs[maxIdx].Value THEN MaxIdx(kvs, j + 1, j)
  ELSE MaxIdx(kvs, j + 1, maxIdx)

\* Lines 240-249: the selection sort from index i on, and the lines printed.
RECURSIVE SortAndPrintFrom(_, _, _)
SortAndPrintFrom(kvs, i, lines) ==
  IF ~(i <= Len(kvs) /\ i <= TopN) THEN lines
  ELSE LET m == MaxIdx(kvs, i + 1, i)
           swapped == [kvs EXCEPT ![i] = kvs[m], ![m] = kvs[i]]
       IN SortAndPrintFrom(swapped, i + 1,
                           Append(lines, <<swapped[i].Value, swapped[i].Key>>))

Count ==
  /\ pc = "count"
  /\ counts' = CountCommands(entries)
  /\ pc' = "range"
  /\ UNCHANGED <<histVars, raw, parsed, splitVars, sorted, sorted2, printed,
                 printed2>>

Range ==
  /\ pc = "range"
  /\ sorted' \in RangeOrders(counts)
  /\ sorted2' \in RangeOrders(counts)
  /\ pc' = "sort"
  /\ UNCHANGED <<histVars, raw, parsed, splitVars, counts, printed, printed2>>

SortAndPrint ==
  /\ pc = "sort"
  /\ printed' = SortAndPrintFrom(sorted, 1, <<>>)
  /\ printed2' = SortAndPrintFrom(sorted2, 1, <<>>)
  /\ pc' = "reported"
  /\ UNCHANGED <<histVars, raw, parsed, splitVars, counts, sorted, sorted2>>

NextReport == Count \/ Range \/ SortAndPrint

\* Two runs of the frequency report on each history of plain lines.
SpecReport == InitReport /\ [][NextReport]_vars

(***************************************************************************)
(* Vocabulary of the properties, stated apart from the code above.         *)
(***************************************************************************)
\* The token sequence of a raw string.
TokensOf(r) == shellSplit(TrimSpace(r))

\* An assignment token contains '=' and does not start with '-'.
AssignmentToken(t) ==
  /\ \E k \in DOMAIN t : t[k] = EQUALS
  /\ ~(t # <<>> /\ t[1] = DASH)

\* r consists entirely of assignment tokens: it has tokens, all of them such.
ConsistsOfAssignments(r) ==
  /\ TokensOf(r) # <<>>
  /\ \A k \in DOMAIN TokensOf(r) : AssignmentToken(TokensOf(r)[k])

\* A physical line ending in a backslash, and that line without it.
EndsInBackslash(l) == l # <<>> /\ l[Len(l)] = BACKSLASH

StripBackslash(l) == SubSeq(l, 1, Len(l) - 1)

\* The text of the longest run of continuation lines ending at lines[m]:
\* each line without its one trailing backslash, followed by a newline.
RECURSIVE RunText(_, _)
RunText(lines, m) ==
  IF m >= 1 /\ EndsInBackslash(lines[m])
  THEN RunText(lines, m - 1) \o StripBackslash(lines[m]) \o <<NEWLINE>>
  ELSE <<>>

\* s ends with t.
EndsWith(s, t) ==
  Len(t) <= Len(s) /\ \A k \in 1..Len(t) : s[Len(s) - Len(t) + k] = t[k]

(***************************************************************************)
(* C1: when a read fails mid-stream, parseHistory returns the error with   *)
(* no partial results: the entries returned with a non-nil error are empty.*)
(* The code returns the entries gathered so far along with scanner.Err().  *)
(***************************************************************************)
C1_NoPartialResults ==
  (pc = "done" /\ ret.err # "nil") => ret.entries = <<>>

(***************************************************************************)
(* C2: in every entry parseHistory returns, the timestamp is the zero      *)
(* instant if and only if the entry came from the plain interpretation.    *)
(* The code maps the timestamp field -62135596800 to the zero instant.     *)
(***************************************************************************)
C2_ZeroIffPlain ==
  pc = "done" =>
    \A k \in DOMAIN ret.entries :
      IsZero(ret.entries[k].Timestamp) <=> origin[k] = "plain"

(***************************************************************************)
(* C3, as stated: the command returned by parseCommand is empty only if    *)
(* raw is empty or consists entirely of assignment tokens, and the         *)
(* arguments are empty whenever the command is empty.                      *)
(***************************************************************************)
C3_AsStated ==
  (pc = "returned" /\ parsed.Cmd = <<>>) =>
    /\ raw = <<>> \/ ConsistsOfAssignments(raw)
    /\ parsed.Args = <<>>

(***************************************************************************)
(* C3, amended: the command returned by parseCommand is empty only if raw  *)
(* yields no token (it is empty, all white space, or only empty quoted     *)
(* words) or consists entirely of assignment tokens, and the arguments are *)
(* empty whenever the command is empty.                                    *)
(***************************************************************************)
C3_EmptyCommand ==
  (pc = "returned" /\ parsed.Cmd = <<>>) =>
    /\ TokensOf(raw) = <<>> \/ ConsistsOfAssignments(raw)
    /\ parsed.Args = <<>>

\* A non-empty raw string was classified and its command is empty.
C3_Witness ==
  pc = "returned" /\ raw # <<>> /\ parsed.Cmd = <<>> /\ parsed.Raw = raw

C5_AllAssignments ==
  (pc = "returned" /\ ConsistsOfAssignments(raw)) =>
    /\ parsed.Cmd = TokensOf(raw)[1]
    /\ parsed.Args = <<>>

\* Two different assignment tokens and nothing else were classified.
C5_Witness ==
  /\ pc = "returned"
  /\ ConsistsOfAssignments(raw)
  /\ Len(TokensOf(raw)) = 2
  /\ TokensOf(raw)[1] # TokensOf(raw)[2]
  /\ parsed.Cmd = TokensOf(raw)[1]

(***************************************************************************)
(* C6: flushing a logical line ": <ts>:<duration>;<command>" whose fields  *)
(* are integers appends exactly one entry, with timestamp <ts> seconds     *)
(* since the epoch, duration <duration>, and the command parsed from       *)
(* everything after the first ';'; no plain entry is appended for it.      *)
(***************************************************************************)
C6_ExtendedEntry ==
  [][ \A p \in GoodParts :
        flushed' = Append(flushed, Build(p)) =>
          /\ entries' = Append(entries,
                               [Timestamp |-> TimeUnix(p.tsVal),
                                Duration |-> p.durVal,
                                Parsed |-> parseCommand(p.cmd)])
          /\ origin' = Append(origin, "extended") ]_vars

\* An extended line whose command text holds a ';' was flushed into one
\* entry with a negative timestamp, and the ';' is in the command.
C6_Witness ==
  \E p \in GoodParts :
    /\ flushed = <<Build(p)>>
    /\ Len(entries) = 1
    /\ entries[1].Timestamp.unix.neg
    /\ entries[1].Duration = Dec(FALSE, <<3>>)
    /\ \E k \in DOMAIN entries[1].Parsed.Raw :
         entries[1].Parsed.Raw[k] = SEMICOLON
    /\ entries[1].Parsed.Cmd = B(<<"a", ";", "b">>)

(***************************************************************************)
(* C7: flushing a non-empty logical line that misses the extended format   *)
(* (wrong prefix, no ';', no ':' in the metadata, or a field that is no    *)
(* integer) appends exactly one entry with absent timestamp and duration   *)
(* whose raw text is the whole line; parseHistory returns no error for it. *)
(***************************************************************************)
C7_PlainFallback ==
  /\ [](pc = "done" => ret.err = scanErr)
  /\ [][ \A l \in BadLines \cup CmdTexts :
           flushed' = Append(flushed, l) =>
             /\ Len(entries') = Len(entries) + 1
             /\ SubSeq(entries', 1, Len(entries)) = entries
             /\ IsZero(entries'[Len(entries')].Timestamp)
             /\ entries'[Len(entries')].Duration = DecZero
             /\ entries'[Len(entries')].Parsed.Raw = l
             /\ origin' = Append(origin, "plain") ]_vars

\* A line with a timestamp field that is no number was flushed into one
\* plain entry, and parseHistory returned without an error.
C7_Witness ==
  /\ pc = "done"
  /\ ret.err = "nil"
  /\ flushed = <<B(<<":", " ", "x", ":", "5", ";", "l", "s", " ", "-", "a">>)>>
  /\ Len(ret.entries) = 1
  /\ ret.entries[1].Parsed.Raw = flushed[1]
  /\ IsZero(ret.entries[1].Timestamp)

(***************************************************************************)
(* C8: a physical line ending in a backslash produces no entry by itself;  *)
(* a run of continuation lines followed by another line leads to exactly   *)
(* one flush, of the run's lines each without its one trailing backslash   *)
(* and followed by a newline, then the final line; the accumulator is      *)
(* empty after the flush.                                                  *)
(***************************************************************************)
C8_Continuation ==
  [][ Len(consumed') = Len(consumed) + 1 =>
        LET n == Len(consumed')
            line == consumed'[n]
        IN IF EndsInBackslash(line)
           THEN /\ flushed' = flushed
                /\ entries' = entries
                /\ currentCmd' = RunText(consumed', n)
           ELSE /\ flushed' = Append(flushed, RunText(consumed', n - 1) \o line)
                /\ Len(entries') <= Len(entries) + 1
                /\ currentCmd' = <<>> ]_vars

\* Two continuation lines and a final line were read and flushed as one
\* logical line holding two newlines.
C8_Witness ==
  /\ Len(consumed) = 3
  /\ EndsInBackslash(consumed[1])
  /\ EndsInBackslash(consumed[2])
  /\ ~EndsInBackslash(consumed[3])
  /\ consumed[3] # <<>>
  /\ Len(flushed) = 1
  /\ Len(flushed[1]) = Len(consumed[1]) + Len(consumed[2]) + Len(consumed[3])
  /\ Len(entries) = 1
  /\ currentCmd = <<>>

(***************************************************************************)
(* C9: if the file ends while the accumulator holds content (the last      *)
(* physical line was a continuation line), that content is flushed exactly *)
(* once after the line loop, by the rules of any complete logical line;    *)
(* nothing accumulated is dropped at the end of the file.                  *)
(***************************************************************************)
C9_FinalFlush ==
  /\ []((pc = "after" /\ consumed # <<>>
          /\ EndsInBackslash(consumed[Len(consumed)]))
        => currentCmd = RunText(consumed, Len(consumed)) /\ currentCmd # <<>>)
  /\ [][ (pc = "after" /\ scanErr = "nil" /\ pc' = "done" /\ currentCmd # <<>>) =>
           /\ flushed' = Append(flushed, currentCmd)
           /\ entries' = entries \o
                [k \in 1..Len(flushEntry(currentCmd)) |->
                   flushEntry(currentCmd)[k].entry]
           /\ ret'.entries = entries'
           /\ ret'.err = "nil" ]_vars

\* The file ended after a continuation line, and its text was flushed after
\* the loop into the last entry returned.
C9_Witness ==
  /\ pc = "done"
  /\ ret.err = "nil"
  /\ Len(consumed) = 2
  /\ ~EndsInBackslash(consumed[1])
  /\ EndsInBackslash(consumed[2])
  /\ Len(flushed) = 2
  /\ flushed[2] = StripBackslash(consumed[2]) \o <<NEWLINE>>
  /\ Len(ret.entries) = 2
  /\ ret.entries[2].Parsed.Raw = flushed[2]

(***************************************************************************)
(* C10: the entry sequence is append-only and in file order: a step never  *)
(* changes or removes an entry, each logical line flushed contributes at   *)
(* most one entry, appended when that line is flushed and taken from that  *)
(* line, an empty plain logical line contributes none, and the sequence    *)
(* returned is the one built.                                              *)
(***************************************************************************)
C10_AppendOnly ==
  /\ []((pc = "done" /\ handle = "closed") => ret.entries = entries)
  /\ [][ /\ Len(entries') >= Len(entries)
         /\ SubSeq(entries', 1, Len(entries)) = entries
         /\ Len(flushed') >= Len(flushed)
         /\ SubSeq(flushed', 1, Len(flushed)) = flushed
         /\ Len(flushed') <= Len(flushed) + 1
         /\ Len(entries') - Len(entries) <= Len(flushed') - Len(flushed)
         /\ Len(entries') = Len(entries) + 1 =>
              EndsWith(flushed'[Len(flushed')],
                       entries'[Len(entries')].Parsed.Raw)
         /\ (Len(flushed') = Len(flushed) + 1 /\ flushed'[Len(flushed')] = <<>>)
              => entries' = entries ]_vars

\* Three logical lines were flushed, the second one empty, and the entries
\* are those of the first and the third, in that order.
C10_Witness ==
  /\ Len(flushed) = 3
  /\ flushed[1] # <<>> /\ flushed[2] = <<>> /\ flushed[3] # <<>>
  /\ flushed[1] # flushed[3]
  /\ Len(entries) = 2
  /\ EndsWith(flushed[1], entries[1].Parsed.Raw)
  /\ EndsWith(flushed[3], entries[2].Parsed.Raw)
  /\ entries[1].Parsed.Raw # entries[2].Parsed.Raw

(***************************************************************************)
(* Vocabulary of the tokenizer's properties: characters, not bytes.        *)
(***************************************************************************)
\* Width in bytes of the UTF-8 character that starts at s[i].
CharWidthAt(s, i) ==
  LET w == IF s[i] \in 194..223 THEN 2
           ELSE IF s[i] \in 224..239 THEN 3
           ELSE IF s[i] \in 240..244 THEN 4
           ELSE 1
  IN IF i + w - 1 <= Len(s) THEN w ELSE 1

\* s is made of white-space characters only (the empty string included).
RECURSIVE AllSpaceFrom(_, _)
AllSpaceFrom(s, i) ==
  IF i > Len(s) THEN TRUE
  ELSE IF SpaceWidthAt(s, i) = 0 THEN FALSE
  ELSE AllSpaceFrom(s, i + SpaceWidthAt(s, i))

IsAllSpace(s) == AllSpaceFrom(s, 1)

\* A word of ordinary ASCII characters: no white space, quote or backslash.
PlainWord(w) ==
  /\ w # <<>>
  /\ \A k \in DOMAIN w :
       w[k] < 128 /\ w[k] \notin {9, 10, 11, 12, 13, 32, SQUOTE, DQUOTE, BACKSLASH}

\* s holds no quote and no backslash, so all of it is outside quotes.
Unquoted(s) == \A k \in DOMAIN s : s[k] \notin {SQUOTE, DQUOTE, BACKSLASH}

\* The words of an unquoted s: its maximal runs of characters that are not
\* white space, each unchanged.
RECURSIVE FieldsFrom(_, _, _, _)
FieldsFrom(s, i, word, words) ==
  IF i > Len(s)
  THEN (IF word # <<>> THEN Append(words, word) ELSE words)
  ELSE IF SpaceWidthAt(s, i) > 0
  THEN FieldsFrom(s, i + SpaceWidthAt(s, i), <<>>,
                  IF word # <<>> THEN Append(words, word) ELSE words)
  ELSE FieldsFrom(s, i + CharWidthAt(s, i),
                  word \o SubSeq(s, i, i + CharWidthAt(s, i) - 1), words)

UnicodeFields(s) == FieldsFrom(s, 1, <<>>, <<>>)

\* The characters a backslash escapes inside double quotes.
DqEscapable == {DQUOTE, BACKSLASH, DOLLAR, BACKTICK, NEWLINE}

\* The character the loop of shellSplit is at.
CurrentChar == splitIn[splitSt.i]

\* A step of the loop of shellSplit.
LoopStep == pc = "split" /\ pc' = "split" /\ splitSt' # splitSt

(***************************************************************************)
(* C11: shellSplit on an empty or all-white-space string returns no token, *)
(* and a run of one or more unquoted white-space characters between two    *)
(* tokens separates them without an extra token.  The code reads bytes,    *)
(* not characters (see C15): a no-break space alone yields a token.        *)
(***************************************************************************)
C11_WhiteSpace ==
  pc = "split_done" =>
    /\ IsAllSpace(splitIn) => splitOut = <<>>
    /\ \A i \in 1..Len(splitIn) : \A j \in i..Len(splitIn) :
         ( /\ PlainWord(SubSeq(splitIn, 1, i - 1))
           /\ IsAllSpace(SubSeq(splitIn, i, j))
           /\ PlainWord(SubSeq(splitIn, j + 1, Len(splitIn))) )
         => splitOut = <<SubSeq(splitIn, 1, i - 1),
                         SubSeq(splitIn, j + 1, Len(splitIn))>>

(***************************************************************************)
(* C12: for every non-empty string x without a single-quote character,     *)
(* shellSplit of x wrapped in single quotes returns exactly the one token  *)
(* x.  The code re-encodes each byte above 127 as a character (see C15).   *)
(***************************************************************************)
C12_SingleQuoted ==
  ( /\ pc = "split_done"
    /\ Len(splitIn) >= 3
    /\ splitIn[1] = SQUOTE
    /\ splitIn[Len(splitIn)] = SQUOTE
    /\ \A k \in 2..(Len(splitIn) - 1) : splitIn[k] # SQUOTE )
  => splitOut = <<SubSeq(splitIn, 2, Len(splitIn) - 1)>>

(***************************************************************************)
(* C13: inside double quotes, a backslash followed by one of double-quote, *)
(* backslash, '$', backtick or newline contributes only that character and *)
(* the quote stays open; a backslash followed by any other character       *)
(* contributes the backslash, and the next character is then processed by  *)
(* the double-quote rules; an unescaped double-quote closes the quote and  *)
(* is not copied.                                                          *)
(***************************************************************************)
C13_DoubleQuoted ==
  [][ (LoopStep /\ splitSt.inDouble) =>
        /\ ( CurrentChar = BACKSLASH /\ splitSt.i < Len(splitIn)
             /\ splitIn[splitSt.i + 1] \in DqEscapable )
           => splitSt' = [splitSt EXCEPT
                            !.current = Append(@, splitIn[splitSt.i + 1]),
                            !.i = @ + 2]
        /\ ( CurrentChar = BACKSLASH /\ splitSt.i < Len(splitIn)
             /\ splitIn[splitSt.i + 1] \notin DqEscapable )
           => splitSt' = [splitSt EXCEPT !.current = Append(@, BACKSLASH),
                                         !.i = @ + 1]
        /\ CurrentChar = DQUOTE
           => splitSt' = [splitSt EXCEPT !.inDouble = FALSE, !.i = @ + 1] ]_vars

\* "a\"b" in double quotes was split into the one token a"b.
C13_Witness ==
  /\ pc = "split_done"
  /\ splitIn = <<DQUOTE, 97, BACKSLASH, DQUOTE, 98, DQUOTE>>
  /\ splitOut = << <<97, DQUOTE, 98>> >>

(***************************************************************************)
(* C14: outside quotes, a backslash followed by any character appends only *)
(* that character to the current token and skips both, so an escaped       *)
(* white-space character does not end the token and an escaped quote opens *)
(* no quote mode.  The code escapes one byte, not one character (see C15): *)
(* an escaped no-break space ends the token.                               *)
(***************************************************************************)
C14_EscapeOutsideQuotes ==
  pc = "split_done" =>
    \A k \in 1..(Len(splitIn) - 1) :
      LET w == CharWidthAt(splitIn, k + 1)
          before == SubSeq(splitIn, 1, k - 1)
          char == SubSeq(splitIn, k + 1, k + w)
          after == SubSeq(splitIn, k + w + 1, Len(splitIn))
      IN ( /\ splitIn[k] = BACKSLASH
           /\ before = <<>> \/ PlainWord(before)
           /\ after = <<>> \/ PlainWord(after) )
         => splitOut = <<before \o char \o after>>

(***************************************************************************)
(* C15: outside quotes, shellSplit treats every Unicode space character as *)
(* a separator that is discarded, also one whose UTF-8 encoding has more   *)
(* than one byte, and appends every other character, also a non-ASCII one, *)
(* to the current token unchanged.  The code converts each byte to a rune  *)
(* (c := rune(s[i])) and writes it back as a character of its own.         *)
(***************************************************************************)
C15_UnicodeOutsideQuotes ==
  (pc = "split_done" /\ Unquoted(splitIn)) => splitOut = UnicodeFields(splitIn)

(***************************************************************************)
(* C18: at every step of shellSplit the two quote-mode flags are never     *)
(* both set, a quote mode is entered only from the unquoted state, and a   *)
(* double-quote inside single quotes (or a single-quote inside double      *)
(* quotes) is copied as an ordinary character.                             *)
(***************************************************************************)
C18_ExclusiveQuoteModes ==
  /\ [](~(splitSt.inSingle /\ splitSt.inDouble))
  /\ [][ LoopStep =>
           /\ (splitSt'.inSingle /\ ~splitSt.inSingle)
                => (~splitSt.inDouble /\ CurrentChar = SQUOTE)
           /\ (splitSt'.inDouble /\ ~splitSt.inDouble)
                => (~splitSt.inSingle /\ CurrentChar = DQUOTE)
           /\ (splitSt.inSingle /\ CurrentChar = DQUOTE)
                => splitSt' = [splitSt EXCEPT !.current = Append(@, DQUOTE),
                                              !.i = @ + 1]
           /\ (splitSt.inDouble /\ CurrentChar = SQUOTE)
                => splitSt' = [splitSt EXCEPT !.current = Append(@, SQUOTE),
                                              !.i = @ + 1] ]_vars

\* '"' was split into the one token ".
C18_Witness ==
  /\ pc = "split_done"
  /\ splitIn = <<SQUOTE, DQUOTE, SQUOTE>>
  /\ splitOut = << <<DQUOTE>> >>

(***************************************************************************)
(* C19: shellSplit terminates on every input without raising: each step    *)
(* advances the position by 1 or 2 and never past the end of the input,    *)
(* and a step or the return is possible until it has returned; with an     *)
(* unterminated quote the accumulated text is the final token; a backslash *)
(* at the last position, in any mode, is appended as a literal character.  *)
(***************************************************************************)
C19_Terminates ==
  /\ <>(pc = "split_done")
  /\ [](pc = "split" => (splitSt.i <= Len(splitIn) + 1 /\ ENABLED NextSplit))
  /\ [][ LoopStep =>
           /\ splitSt'.i - splitSt.i \in {1, 2}
           /\ splitSt'.i <= Len(splitIn) + 1
           /\ (CurrentChar = BACKSLASH /\ splitSt.i = Len(splitIn))
                => splitSt' = [splitSt EXCEPT !.current = Append(@, BACKSLASH),
                                              !.i = @ + 1] ]_vars
  /\ [][ (pc = "split" /\ pc' = "split_done") =>
           /\ splitSt.i = Len(splitIn) + 1
           /\ ((splitSt.inSingle \/ splitSt.inDouble) /\ splitSt.current # <<>>)
                => splitOut' = Append(splitSt.tokens, splitSt.current) ]_vars

\* A double quote left open and ending in a backslash: the text after the
\* quote, backslash included, is the one token.
C19_Witness ==
  /\ pc = "split_done"
  /\ splitIn = <<DQUOTE, 97, BACKSLASH>>
  /\ splitSt.inDouble
  /\ splitOut = << <<97, BACKSLASH>> >>

(***************************************************************************)
(* C20: every token shellSplit returns is a non-empty string: a token is   *)
(* appended only when the buffer is non-empty, so an empty quoted word     *)
(* (two adjacent quotes standing alone) contributes no token.              *)
(***************************************************************************)
C20_NoEmptyToken ==
  /\ \A k \in DOMAIN splitSt.tokens : splitSt.tokens[k] # <<>>
  /\ \A k \in DOMAIN splitOut : splitOut[k] # <<>>
  /\ (pc = "split_done" /\ splitIn \in {<<SQUOTE, SQUOTE>>, <<DQUOTE, DQUOTE>>})
       => splitOut = <<>>

\* A word followed by an empty quoted word was split into the word alone.
C20_Witness ==
  /\ pc = "split_done"
  /\ splitIn = <<97, SPACE, DQUOTE, DQUOTE>>
  /\ splitOut = << <<97>> >>

(***************************************************************************)
(* C16: the frequency report is deterministic: for the same entries two    *)
(* runs print the same commands in the same order, ties included.  The     *)
(* code breaks a tie by the order in which the range over the map counts   *)
(* met the commands, which differs from run to run.                        *)
(***************************************************************************)
C16_SameReport == pc = "reported" => printed = printed2

(***************************************************************************)
(* C17: the file handle of parseHistory is released on every exit path:    *)
(* once parseHistory has returned after a successful open, at the end of   *)
(* the file or after a read error, the handle is closed; when the open     *)
(* fails no handle is held.                                                *)
(***************************************************************************)
C17_HandleReleased ==
  /\ pc = "start" => handle = "none"
  /\ pc \in {"scan", "after"} => handle = "open"
  /\ pc = "done" => handle = (IF ret.err = "open" THEN "none" ELSE "closed")

\* parseHistory returned a read error after a continuation line, and the
\* handle is closed.
C17_Witness ==
  /\ pc = "done"
  /\ ret.err = "read"
  /\ consumed # <<>>
  /\ EndsInBackslash(consumed[Len(consumed)])
  /\ handle = "closed"

=============================================================================
